---- MODULE Spec2Model ----
(***************************************************************************)
(* Model of recibo_web_app.py: the amount-in-words converter               *)
(* (valor_por_extenso), the receipt renderer (gerar_recibo_pdf_memoria)    *)
(* and the Flask handlers that call them (generate, extenso_api and the    *)
(* client handlers), over the two SQLite tables clientes and recibos.      *)
(*                                                                         *)
(* Text is a sequence of one-character strings, so that slicing, rfind,    *)
(* replace and join are modelled by what they do to the characters.        *)
(***************************************************************************)
EXTENDS Integers, Sequences, FiniteSets, TLC

VARIABLES
  clientes,   \* rows of table clientes: set of [id, nome]
  recibos,    \* rows of table recibos, in insertion order
  next_id,    \* AUTOINCREMENT counter of clientes
  req,        \* the call or request being answered: [op, valor, extenso]
  resp,       \* its outcome
  lembrado,   \* observer: one earlier core call, [op, valor, extenso, resp, n]
  laco        \* the words loop of a render in progress: [pc, extenso, lines, drawn, hard]

vars == <<clientes, recibos, next_id, req, resp, lembrado, laco>>

----------------------------------------------------------------------------
(* Bounds of the model                                                     *)

MaxInt == 3
MaxRecibos == 1
MaxClientes == 1

----------------------------------------------------------------------------
(* Character tables                                                        *)

low_numwords ==
  << <<"z", "e", "r", "o">>,
     <<"u", "m">>,
     <<"d", "o", "i", "s">>,
     <<"t", "r", "ê", "s">>,
     <<"q", "u", "a", "t", "r", "o">>,
     <<"c", "i", "n", "c", "o">>,
     <<"s", "e", "i", "s">>,
     <<"s", "e", "t", "e">>,
     <<"o", "i", "t", "o">>,
     <<"n", "o", "v", "e">>,
     <<"d", "e", "z">>,
     <<"o", "n", "z", "e">>,
     <<"d", "o", "z", "e">>,
     <<"t", "r", "e", "z", "e">>,
     <<"c", "a", "t", "o", "r", "z", "e">>,
     <<"q", "u", "i", "n", "z", "e">>,
     <<"d", "e", "z", "e", "s", "s", "e", "i", "s">>,
     <<"d", "e", "z", "e", "s", "s", "e", "t", "e">>,
     <<"d", "e", "z", "o", "i", "t", "o">>,
     <<"d", "e", "z", "e", "n", "o", "v", "e">> >>

mid_numwords ==
  << <<"v", "i", "n", "t", "e">>,
     <<"t", "r", "i", "n", "t", "a">>,
     <<"q", "u", "a", "r", "e", "n", "t", "a">>,
     <<"c", "i", "n", "q", "u", "e", "n", "t", "a">>,
     <<"s", "e", "s", "s", "e", "n", "t", "a">>,
     <<"s", "e", "t", "e", "n", "t", "a">>,
     <<"o", "i", "t", "e", "n", "t", "a">>,
     <<"n", "o", "v", "e", "n", "t", "a">> >>

hundreds ==
  << <<"c", "e", "n", "t", "o">>,
     <<"d", "u", "z", "e", "n", "t", "o", "s">>,
     <<"t", "r", "e", "z", "e", "n", "t", "o", "s">>,
     <<"q", "u", "a", "t", "r", "o", "c", "e", "n", "t", "o", "s">>,
     <<"q", "u", "i", "n", "h", "e", "n", "t", "o", "s">>,
     <<"s", "e", "i", "s", "c", "e", "n", "t", "o", "s">>,
     <<"s", "e", "t", "e", "c", "e", "n", "t", "o", "s">>,
     <<"o", "i", "t", "o", "c", "e", "n", "t", "o", "s">>,
     <<"n", "o", "v", "e", "c", "e", "n", "t", "o", "s">> >>

T_cem == <<"c", "e", "m">>
T_mil == <<"m", "i", "l">>
T_e == <<"e">>
T_real == <<"r", "e", "a", "l">>
T_reais == <<"r", "e", "a", "i", "s">>
T_centavo == <<"c", "e", "n", "t", "a", "v", "o">>
T_centavos == <<"c", "e", "n", "t", "a", "v", "o", "s">>
T_zero_reais == <<"z", "e", "r", "o", " ", "r", "e", "a", "i", "s">>
T_prefixo == <<"R", "$", " ">>
T_nan == <<"n", "a", "n">>
T_inf == <<"i", "n", "f">>

----------------------------------------------------------------------------
(* Text helpers (Python str operations used by the code)                   *)

Digits == <<"0", "1", "2", "3", "4", "5", "6", "7", "8", "9">>

\* str.join over a list of texts
RECURSIVE Join(_, _)
Join(sep, parts) ==
  IF parts = <<>> THEN <<>>
  ELSE IF Len(parts) = 1 THEN parts[1]
  ELSE parts[1] \o sep \o Join(sep, Tail(parts))

\* str.replace(a, b) for one-character a and b
Replace(s, a, b) == [i \in 1..Len(s) |-> IF s[i] = a THEN b ELSE s[i]]

\* variant: str.find(' '), the first space instead of the last
RECURSIVE find_space(_)
find_space(s) ==
  IF s = <<>> THEN -1
  ELSE IF Head(s) = " " THEN 0
  ELSE LET r == find_space(Tail(s)) IN IF r = -1 THEN -1 ELSE r + 1

\* str.rfind(' '): 0-based index of the last space, -1 when there is none
rfind_space(s) ==
  LET found == {i \in 0..(Len(s) - 1) : s[i + 1] = " "}
  IN  IF found = {} THEN -1
      ELSE CHOOSE i \in found : \A j \in found : j <= i

\* s[:n] and s[n:] with Python's 0-based bounds
Prefix(s, n) == SubSeq(s, 1, IF n < Len(s) THEN n ELSE Len(s))
Suffix(s, n) == SubSeq(s, n + 1, Len(s))

\* str.endswith('.')
EndsWithDot(s) == Len(s) > 0 /\ s[Len(s)] = "."

----------------------------------------------------------------------------
(* The amount string `valor` and float(valor)                              *)
(*                                                                         *)
(* A submitted amount is one of: kind "absent" (no key in the record),     *)
(* "empty" (''), "text" (not a number), "nan", "inf", or "num": a decimal  *)
(* with sign neg, whole part int and thousandths mills.  float() turns a   *)
(* decimal into the nearest binary double; for a decimal whose third       *)
(* fractional digit is 5 the double lies just below or just above the tie, *)
(* and the product (v - inteiro) * 100 is rounded once more, so the two    *)
(* roundings of the code can fall either way independently (Python:        *)
(* 2.995 -> 100 cents and '3.00'; 1.115 -> 12 cents and '1.11'; 0.005 ->   *)
(* 0 cents and '0.01'; 1.005 -> 0 cents and '1.00').  The fields up and    *)
(* fup record how the double of this amount resolves each of them.         *)

Valor(kind, neg, int, mills, up, fup) ==
  [kind |-> kind, neg |-> neg, int |-> int, mills |-> mills, up |-> up, fup |-> fup]

Num(neg, int, mills) == Valor("num", neg, int, mills, FALSE, FALSE)
NaoNum(kind) == Valor(kind, FALSE, 0, 0, FALSE, FALSE)

\* float(value) succeeds (lines 91 and 542); 'nan' and 'inf' are floats
FloatOk(v) == v.kind \in {"num", "nan", "inf"}

\* int(v) raises ValueError for nan and OverflowError for inf (line 94)
IntOk(v) == v.kind = "num"

\* round(x * 100) of a fraction of `mills` thousandths, tie resolved by `up`
RoundCents(mills, up) ==
  (mills \div 10) + (IF (mills % 10) > 5 \/ ((mills % 10) = 5 /\ up) THEN 1 ELSE 0)

\* inteiro = int(v): truncation toward zero
Inteiro(v) == IF v.neg THEN 0 - v.int ELSE v.int

\* centavos = int(round((v - inteiro) * 100)): no carry into inteiro
Centavos(v) ==
  IF v.neg THEN 0 - RoundCents(v.mills, v.up) ELSE RoundCents(v.mills, v.up)

----------------------------------------------------------------------------
(* num2words(n, lang='pt_BR'), the library call of lines 98 and 102, for   *)
(* 0 <= n < 2000000: below a hundred, below a thousand, then the thousands *)
(* and the million, joined with ' e ' before a remainder of at most 100    *)
(* and with ', ' before a larger one.                                      *)

T_milhao == <<"m", "i", "l", "h", "ã", "o">>
T_milhoes == <<"m", "i", "l", "h", "õ", "e", "s">>

Below100(n) ==
  IF n < 20 THEN low_numwords[n + 1]
  ELSE IF n % 10 = 0 THEN mid_numwords[(n \div 10) - 1]
  ELSE mid_numwords[(n \div 10) - 1] \o <<" ">> \o T_e \o <<" ">> \o low_numwords[(n % 10) + 1]

Below1000(n) ==
  IF n < 100 THEN Below100(n)
  ELSE IF n = 100 THEN T_cem
  ELSE IF n % 100 = 0 THEN hundreds[n \div 100]
  ELSE hundreds[n \div 100] \o <<" ">> \o T_e \o <<" ">> \o Below100(n % 100)

\* the separator before a remainder r > 0 of a thousand or a million
Separador(r) == IF r <= 100 THEN <<" ">> \o T_e \o <<" ">> ELSE <<",", " ">>

BelowMillion(n) ==
  IF n < 1000 THEN Below1000(n)
  ELSE LET mil == IF n \div 1000 = 1 THEN T_mil
                  ELSE Below1000(n \div 1000) \o <<" ">> \o T_mil
           r == n % 1000
       IN  IF r = 0 THEN mil ELSE mil \o Separador(r) \o Below1000(r)

num2words(n) ==
  IF n < 1000000 THEN BelowMillion(n)
  ELSE LET milhao == IF n \div 1000000 = 1 THEN low_numwords[2] \o <<" ">> \o T_milhao
                     ELSE Below1000(n \div 1000000) \o <<" ">> \o T_milhoes
           r == n % 1000000
       IN  IF r = 0 THEN milhao ELSE milhao \o Separador(r) \o BelowMillion(r)

----------------------------------------------------------------------------
(* valor_por_extenso (lines 88-107)                                        *)

\* variant: the noun is not inflected
MoedaSemprePlural(inteiro) == T_reais

\* moeda = 'real' if inteiro == 1 else 'reais'
Moeda(inteiro) == IF inteiro = 1 THEN T_real ELSE T_reais

\* cent = 'centavo' if centavos == 1 else 'centavos'
Cent(centavos) == IF centavos = 1 THEN T_centavo ELSE T_centavos

ParteReais(inteiro) == num2words(inteiro) \o <<" ">> \o Moeda(inteiro)

ParteCentavos(centavos) == num2words(centavos) \o <<" ">> \o Cent(centavos)

\* the list partes after lines 96-104
Partes(inteiro, centavos) ==
  (IF inteiro > 0 THEN <<ParteReais(inteiro)>> ELSE <<>>)
    \o (IF centavos > 0 THEN <<ParteCentavos(centavos)>> ELSE <<>>)

\* variant: the parts are joined with a comma
JuntarVirgula(partes) == Join(<<",", " ">>, partes)

\* ' e '.join(partes)
Juntar(partes) == Join(<<" ", "e", " ">>, partes)


\* variant: an answer is made up for an amount that is no number
ExtensoInvalidoZero == T_zero_reais

\* except: return '' (lines 92-93)
ExtensoInvalido == <<>>

valor_por_extenso(value) ==
  IF ~FloatOk(value) THEN [outcome |-> "return", text |-> ExtensoInvalido, erro |-> "none"]
  ELSE IF ~IntOk(value)
    THEN [outcome |-> "raise", text |-> <<>>,
          erro |-> IF value.kind = "nan" THEN "ValueError" ELSE "OverflowError"]
  ELSE LET partes == Partes(Inteiro(value), Centavos(value))
       IN  IF partes = <<>>
             THEN [outcome |-> "return", text |-> T_zero_reais, erro |-> "none"]
             ELSE [outcome |-> "return", text |-> Juntar(partes), erro |-> "none"]

----------------------------------------------------------------------------
(* valor_formatado (line 142)                                              *)

\* decimal digits of n >= 0
RECURSIVE IntDigits(_)
IntDigits(n) ==
  IF n < 10 THEN <<Digits[n + 1]>>
  ELSE IntDigits(n \div 10) \o <<Digits[(n % 10) + 1]>>

\* n in 0..999 as three digits
Pad3(n) == <<Digits[(n \div 100) + 1], Digits[((n \div 10) % 10) + 1], Digits[(n % 10) + 1]>>

\* n in 0..99 as two digits
Pad2(n) == <<Digits[(n \div 10) + 1], Digits[(n % 10) + 1]>>

\* the ',' option of the format spec: groups of three from the right
RECURSIVE Grouped(_)
Grouped(n) ==
  IF n < 1000 THEN IntDigits(n)
  ELSE Grouped(n \div 1000) \o <<",">> \o Pad3(n % 1000)

\* the amount in cents after the rounding of '.2f' (carries into the whole part)
CentsTotal(v) == v.int * 100 + RoundCents(v.mills, v.fup)

\* f"{float(valor):,.2f}"
FormatFixed2(v) ==
  IF v.kind = "nan" THEN T_nan
  ELSE IF v.kind = "inf" THEN T_inf
  ELSE (IF v.neg THEN <<"-">> ELSE <<>>)
         \o Grouped(CentsTotal(v) \div 100) \o <<".">> \o Pad2(CentsTotal(v) % 100)

\* variant: the two separators are replaced one after the other, with no
\* placeholder in between
SwapSemPlaceholder(s) == Replace(Replace(s, ",", "."), ".", ",")

\* .replace(',', 'X').replace('.', ',').replace('X', '.')
SwapSeparators(s) == Replace(Replace(Replace(s, ",", "X"), ".", ","), "X", ".")

valor_formatado(v) == SwapSeparators(T_prefixo \o FormatFixed2(v))

----------------------------------------------------------------------------
(* The words block (lines 175-198)                                         *)

max_chars_line == 90

\* lines 177-178: terminate with a period
Terminar(extenso) ==
  IF extenso # <<>> /\ ~EndsWithDot(extenso) THEN extenso \o <<".">> ELSE extenso

\* the while loop of lines 182-193; `lines` is the list built so far
RECURSIVE Quebrar(_, _)
Quebrar(extenso, lines) ==
  IF extenso = <<>> THEN lines
  ELSE IF Len(extenso) <= max_chars_line THEN Append(lines, extenso)
  ELSE LET part == Prefix(extenso, max_chars_line)
           last_space == rfind_space(part)
       IN  IF last_space = -1
             THEN Quebrar(Suffix(extenso, max_chars_line), Append(lines, part))
             ELSE Quebrar(Suffix(extenso, last_space + 1),
                          Append(lines, Prefix(extenso, last_space)))

\* for ln in lines[:2]: drawString
Desenhadas(lines) == Prefix(lines, 2)

----------------------------------------------------------------------------
(* gerar_recibo_pdf_memoria (lines 111-255)                                *)
(*                                                                         *)
(* d is the record [nome, valor, valor_extenso].  The canvas collects the  *)
(* drawing operations in memory; the BytesIO buffer receives the page      *)
(* only at c.showPage(); c.save() (lines 252-253).                         *)

\* what the canvas has drawn when line 142 is reached (lines 118-141)
DesenhoAntes == <<"borda", "empresa", "empresa_dados", "caixa_valor">>

\* variant: every drawing operation is written through to the buffer
BufferEscritaDireta(canvas) == canvas

\* the buffer when an exception leaves the function before c.save()
BufferSemSave(canvas) == <<>>

\* the page written by c.save(): every region of the layout
Pagina(d) ==
  LET lines == Quebrar(Terminar(d.valor_extenso), <<>>)
  IN  [ valor_box   |-> valor_formatado(d.valor),
        nome_box    |-> d.nome,
        lines       |-> lines,
        extenso_box |-> Desenhadas(lines),
        mensalidade |-> valor_formatado(d.valor),
        total       |-> valor_formatado(d.valor),
        assinatura  |-> d.nome ]

SemPagina ==
  [ valor_box |-> <<>>, nome_box |-> "", lines |-> <<>>, extenso_box |-> <<>>,
    mensalidade |-> <<>>, total |-> <<>>, assinatura |-> "" ]

gerar_recibo_pdf_memoria(d) ==
  IF d.valor.kind = "absent"
    THEN [outcome |-> "raise", erro |-> "KeyError", returned |-> FALSE,
          buffer |-> BufferSemSave(DesenhoAntes), page |-> SemPagina]
  ELSE IF ~FloatOk(d.valor)
    THEN [outcome |-> "raise", erro |-> "ValueError", returned |-> FALSE,
          buffer |-> BufferSemSave(DesenhoAntes), page |-> SemPagina]
  ELSE [outcome |-> "return", erro |-> "none", returned |-> TRUE,
        buffer |-> <<"page">>, page |-> Pagina(d)]

----------------------------------------------------------------------------
(* Requests and responses                                                  *)

NoExtenso == [outcome |-> "none", text |-> <<>>, erro |-> "none"]

NoRender ==
  [outcome |-> "none", erro |-> "none", returned |-> FALSE, buffer |-> <<>>,
   page |-> SemPagina]

Req(op, nome, valor, extenso) ==
  [op |-> op, nome |-> nome, valor |-> valor, extenso |-> extenso]

Resp(kind, flash, extenso, render) ==
  [kind |-> kind, flash |-> flash, extenso |-> extenso, render |-> render]

NoReq == Req("none", "", NaoNum("absent"), <<>>)
NoResp == Resp("none", "", NoExtenso, NoRender)
NoLembrado ==
  [op |-> "none", valor |-> NaoNum("absent"), extenso |-> <<>>, resp |-> NoResp, n |-> 0]

\* no render is inside its words loop
NoLaco == [pc |-> "idle", extenso |-> <<>>, lines |-> <<>>, drawn |-> <<>>, hard |-> FALSE]

\* the receipt record d assembled for the renderer (lines 548-559)
Recibo(nome, valor, valor_extenso) ==
  [nome |-> nome, valor |-> valor, valor_extenso |-> valor_extenso]

\* the observer keeps the call just made (its argument, its outcome and the
\* number of recibos rows at that time), or what it held
Lembrar(lembrar, op, valor, extenso, r) ==
  IF lembrar
    THEN [op |-> op, valor |-> valor, extenso |-> extenso, resp |-> r, n |-> Len(recibos)]
  ELSE lembrado

----------------------------------------------------------------------------
(* init_db (lines 55-84): both tables exist and are empty                  *)

init_db ==
  /\ clientes = {}
  /\ recibos = <<>>
  /\ next_id = 1
  /\ req = NoReq
  /\ resp = NoResp
  /\ lembrado = NoLembrado
  /\ laco = NoLaco

----------------------------------------------------------------------------
(* Client handlers                                                         *)

\* POST /add_client (lines 455-483)
add_client(nome) ==
  /\ next_id <= MaxClientes
  /\ clientes' = clientes \cup {[id |-> next_id, nome |-> nome]}
  /\ next_id' = next_id + 1
  /\ req' = Req("add_client", nome, NaoNum("absent"), <<>>)
  /\ resp' = Resp("html", "Cliente adicionado e carregado no formulário.", NoExtenso, NoRender)
  /\ UNCHANGED <<recibos, lembrado, laco>>

\* POST /edit_client/<cid> (lines 506-513)
edit_client(cid, nome) ==
  /\ clientes' = {IF c.id = cid THEN [c EXCEPT !.nome = nome] ELSE c : c \in clientes}
  /\ req' = Req("edit_client", nome, NaoNum("absent"), <<>>)
  /\ resp' = Resp("redirect", "Cliente atualizado.", NoExtenso, NoRender)
  /\ UNCHANGED <<recibos, next_id, lembrado, laco>>

\* GET /delete_client/<cid> (lines 515-522)
delete_client(cid) ==
  /\ clientes' = {c \in clientes : c.id # cid}
  /\ req' = Req("delete_client", "", NaoNum("absent"), <<>>)
  /\ resp' = Resp("redirect", "Cliente removido.", NoExtenso, NoRender)
  /\ UNCHANGED <<recibos, next_id, lembrado, laco>>

----------------------------------------------------------------------------
(* Calls of the two core functions                                         *)

\* GET /extenso (lines 524-527): the body is valor_por_extenso(valor);
\* an exception of the function is answered 500
extenso_api(v, lembrar) ==
  LET e == valor_por_extenso(v)
      r == Resp(IF e.outcome = "return" THEN "text" ELSE "error500", "", e, NoRender)
  IN  /\ req' = Req("extenso_api", "", v, <<>>)
      /\ resp' = r
      /\ lembrado' = Lembrar(lembrar, "extenso_api", v, <<>>, r)
      /\ UNCHANGED <<clientes, recibos, next_id, laco>>

\* variant: the renderer also records the receipt in table recibos
chamar_gerar_recibo_salvando(d, lembrar) ==
  LET g == gerar_recibo_pdf_memoria(d)
      r == Resp("call", "", NoExtenso, g)
  IN  /\ req' = Req("gerar_recibo_pdf_memoria", d.nome, d.valor, d.valor_extenso)
      /\ resp' = r
      /\ lembrado' = Lembrar(lembrar, "gerar_recibo_pdf_memoria", d.valor, d.valor_extenso, r)
      /\ recibos' = IF g.outcome = "return" /\ Len(recibos) < MaxRecibos
                      THEN Append(recibos, [nome |-> d.nome, valor |-> d.valor])
                      ELSE recibos
      /\ UNCHANGED <<clientes, next_id, laco>>

\* a call gerar_recibo_pdf_memoria(d) by any caller
chamar_gerar_recibo(d, lembrar) ==
  LET g == gerar_recibo_pdf_memoria(d)
      r == Resp("call", "", NoExtenso, g)
  IN  /\ req' = Req("gerar_recibo_pdf_memoria", d.nome, d.valor, d.valor_extenso)
      /\ resp' = r
      /\ lembrado' = Lembrar(lembrar, "gerar_recibo_pdf_memoria", d.valor, d.valor_extenso, r)
      /\ UNCHANGED <<clientes, recibos, next_id, laco>>

----------------------------------------------------------------------------
(* POST /generate (lines 529-570)                                          *)

\* the validation of lines 538-545: the amount is present and float() takes it
ValorAceito(valor) == valor.kind # "empty" /\ FloatOk(valor)

generate(nome, valor) ==
  /\ Len(recibos) < MaxRecibos
  /\ req' = Req("generate", nome, valor, <<>>)
  /\ UNCHANGED <<clientes, next_id, lembrado, laco>>
  /\ IF nome = "" \/ valor.kind = "empty"
       THEN /\ resp' = Resp("redirect", "Preencha pelo menos o Nome e o Valor.", NoExtenso, NoRender)
            /\ UNCHANGED recibos
     ELSE IF ~ValorAceito(valor)
       THEN /\ resp' = Resp("redirect", "Valor inválido. Use ponto como separador decimal (ex: 431.00)", NoExtenso, NoRender)
            /\ UNCHANGED recibos
     ELSE LET e == valor_por_extenso(valor)
          IN  IF e.outcome = "raise"
                THEN \* int(v) raised at line 94, before the INSERT
                     /\ resp' = Resp("error500", "", e, NoRender)
                     /\ UNCHANGED recibos
                ELSE LET g == gerar_recibo_pdf_memoria(Recibo(nome, valor, e.text))
                     IN  /\ recibos' = Append(recibos, [nome |-> nome, valor |-> valor])
                         /\ resp' = Resp(IF g.outcome = "return" THEN "pdf" ELSE "error500",
                                         "", e, g)

----------------------------------------------------------------------------
(* Inputs                                                                  *)

\* how the double of a decimal can resolve a rounding: free when the third
\* fractional digit is 5, fixed otherwise
Ties(mills) == IF mills % 10 = 5 THEN BOOLEAN ELSE {FALSE}

NaoNumeros == {NaoNum("empty"), NaoNum("text"), NaoNum("nan"), NaoNum("inf")}

\* whole parts: the small ones, and the shapes of num2words and of grouping
IntParts == (0..MaxInt) \cup {21, 100, 101, 999, 1000, 1234, 999999}
IntPartsRender == (0..MaxInt) \cup {999, 1000, 1234, 999999, 1000000, 1234567}

\* a text of `len` characters: spaces at the 0-based positions `spaces`,
\* a final period when `dot`, letters elsewhere
Texto(len, spaces, dot) ==
  [i \in 1..len |-> IF (i - 1) \in spaces THEN " "
                    ELSE IF i = len /\ dot THEN "." ELSE "a"]

\* where the 95-character texts may have their spaces
PosicoesEspaco == {0, 3, 4, 5, 45, 88, 89, 90, 94}

Nomes == {"", "Ana"}
NomesCliente == {"Ana", "Bia"}

\* the amounts submitted to the web handlers
ValoresWeb ==
  { NaoNum("empty"), NaoNum("text"), NaoNum("nan"),
    Num(FALSE, 5, 0), Num(TRUE, 5, 0), Num(FALSE, 2, 996),
    Valor("num", FALSE, 0, 5, FALSE, TRUE), Num(FALSE, 999999, 990) }

RecibosWeb ==
  { Recibo("Ana", v, t) : v \in {Num(FALSE, 5, 0), NaoNum("absent"), NaoNum("text")},
                          t \in {<<>>, Texto(95, {45, 88}, FALSE)} }

----------------------------------------------------------------------------
(* Specifications                                                          *)

Init == init_db

Next ==
  \/ \E nome \in NomesCliente : add_client(nome)
  \/ \E cid \in 1..MaxClientes, nome \in NomesCliente : edit_client(cid, nome)
  \/ \E cid \in 1..MaxClientes : delete_client(cid)
  \/ \E v \in ValoresWeb, lembrar \in BOOLEAN : extenso_api(v, lembrar)
  \/ \E d \in RecibosWeb, lembrar \in BOOLEAN : chamar_gerar_recibo(d, lembrar)
  \/ \E nome \in Nomes, v \in ValoresWeb : generate(nome, v)

Spec == Init /\ [][Next]_vars

\* valor_por_extenso alone: the initial state draws the argument of the
\* pending call, the step makes the call
PendingExtenso(v) ==
  /\ clientes = {}
  /\ recibos = <<>>
  /\ next_id = 1
  /\ req = Req("pending", "", v, <<>>)
  /\ resp = NoResp
  /\ lembrado = NoLembrado
  /\ laco = NoLaco

InitExtenso ==
  \/ \E v \in NaoNumeros : PendingExtenso(v)
  \/ \E i \in IntParts, m \in 0..999, neg \in BOOLEAN :
       \E up \in Ties(m) : PendingExtenso(Valor("num", neg, i, m, up, FALSE))

NextExtenso == req.op = "pending" /\ extenso_api(req.valor, FALSE)

SpecExtenso == InitExtenso /\ [][NextExtenso]_vars

\* gerar_recibo_pdf_memoria alone: the initial state draws the record of the
\* pending call, the step makes the call.  Either the amount varies under a
\* short words text, or the words text varies over the 95-character texts
PendingRender(d) ==
  /\ clientes = {}
  /\ recibos = <<>>
  /\ next_id = 1
  /\ req = Req("pending", d.nome, d.valor, d.valor_extenso)
  /\ resp = NoResp
  /\ lembrado = NoLembrado
  /\ laco = NoLaco

InitRender ==
  \/ \E v \in NaoNumeros \cup {NaoNum("absent")} : PendingRender(Recibo("Ana", v, T_zero_reais))
  \/ \E i \in IntPartsRender, m \in 0..999, neg \in BOOLEAN :
       \E fup \in Ties(m) :
         PendingRender(Recibo("Ana", Valor("num", neg, i, m, FALSE, fup), T_zero_reais))
  \/ \E v \in {Num(FALSE, 5, 0), NaoNum("absent"), NaoNum("text")} :
       \/ PendingRender(Recibo("Ana", v, <<>>))
       \/ \E sp \in SUBSET PosicoesEspaco, dot \in BOOLEAN :
            PendingRender(Recibo("Ana", v, Texto(95, sp, dot)))

NextRender ==
  req.op = "pending" /\ chamar_gerar_recibo(Recibo(req.nome, req.valor, req.extenso), FALSE)

SpecRender == InitRender /\ [][NextRender]_vars

----------------------------------------------------------------------------
(* Reading a text back: words, and the value a words text or an amount     *)
(* string denotes                                                          *)

\* str.split(' ')
RECURSIVE Split(_, _, _)
Split(s, cur, acc) ==
  IF s = <<>> THEN Append(acc, cur)
  ELSE IF Head(s) = " " THEN Split(Tail(s), <<>>, Append(acc, cur))
  ELSE Split(Tail(s), Append(cur, Head(s)), acc)

Tokens(s) == Split(s, <<>>, <<>>)

HasToken(s, tok) == LET toks == Tokens(s) IN \E i \in 1..Len(toks) : toks[i] = tok

\* a word without its trailing comma or period
SemPontuacao(tok) ==
  IF Len(tok) > 0 /\ tok[Len(tok)] \in {",", "."} THEN SubSeq(tok, 1, Len(tok) - 1) ELSE tok

\* the number a cardinal word stands for, 0 for any other word
WordValue(tok) ==
  IF \E i \in 1..20 : low_numwords[i] = tok
    THEN (CHOOSE i \in 1..20 : low_numwords[i] = tok) - 1
  ELSE IF \E i \in 1..8 : mid_numwords[i] = tok
    THEN 10 * ((CHOOSE i \in 1..8 : mid_numwords[i] = tok) + 1)
  ELSE IF \E i \in 1..9 : hundreds[i] = tok
    THEN 100 * (CHOOSE i \in 1..9 : hundreds[i] = tok)
  ELSE IF tok = T_cem THEN 100
  ELSE 0

\* the reais and centavos a words text states: acc is the group being read,
\* total the thousands and millions already read
RECURSIVE ParseWords(_, _, _, _, _)
ParseWords(toks, acc, total, units, cents) ==
  IF toks = <<>> THEN [units |-> units, cents |-> cents]
  ELSE LET t == SemPontuacao(Head(toks))
           rest == Tail(toks)
       IN  IF t = T_mil
             THEN ParseWords(rest, 0, total + (IF acc = 0 THEN 1 ELSE acc) * 1000, units, cents)
           ELSE IF t \in {T_milhao, T_milhoes}
             THEN ParseWords(rest, 0, total + acc * 1000000, units, cents)
           ELSE IF t \in {T_real, T_reais}
             THEN ParseWords(rest, 0, 0, total + acc, cents)
           ELSE IF t \in {T_centavo, T_centavos}
             THEN ParseWords(rest, 0, 0, units, total + acc)
           ELSE ParseWords(rest, acc + WordValue(t), total, units, cents)

ValueOfWords(s) == ParseWords(Tokens(s), 0, 0, 0, 0)

IsDigit(c) == \E i \in 1..10 : Digits[i] = c
DigitValue(c) == (CHOOSE i \in 1..10 : Digits[i] = c) - 1

\* the number the digits of s spell, other characters skipped
RECURSIVE DigitsValue(_, _)
DigitsValue(s, acc) ==
  IF s = <<>> THEN acc
  ELSE IF IsDigit(Head(s)) THEN DigitsValue(Tail(s), acc * 10 + DigitValue(Head(s)))
  ELSE DigitsValue(Tail(s), acc)

\* the signed amount, in centavos, that a drawn amount string denotes
CentsOfNumber(s) ==
  IF \E i \in 1..Len(s) : s[i] = "-" THEN 0 - DigitsValue(s, 0) ELSE DigitsValue(s, 0)

CentsOfWords(s) == ValueOfWords(s).units * 100 + ValueOfWords(s).cents

----------------------------------------------------------------------------
(* Claims about valor_por_extenso, under SpecExtenso                       *)

\* the call of valor_por_extenso has been made on a non-negative number
ExtensoFeito == req.op = "extenso_api"
ExtensoNaoNegativo == ExtensoFeito /\ req.valor.kind = "num" /\ ~req.valor.neg

T_cem_centavos == T_cem \o <<" ">> \o T_centavos

\* s contains the text t
Contains(s, t) ==
  \E i \in 1..(Len(s) - Len(t) + 1) : SubSeq(s, i, i + Len(t) - 1) = t

\* C1: when the fraction of a non-negative amount rounds to 100 centavos,
\* valor_por_extenso reports the whole part plus one with no centavos part,
\* and its output never contains 'cem centavos'.
C1_CarryIntoReais ==
  ExtensoNaoNegativo =>
    /\ RoundCents(req.valor.mills, req.valor.up) = 100 =>
         resp.extenso.text = ParteReais(req.valor.int + 1)
    /\ ~Contains(resp.extenso.text, T_cem_centavos)

C7_PartsJoined ==
  LET I == req.valor.int
      F == RoundCents(req.valor.mills, req.valor.up)
      reais == num2words(I) \o <<" ">> \o (IF I = 1 THEN T_real ELSE T_reais)
      centavos == num2words(F) \o <<" ">> \o (IF F = 1 THEN T_centavo ELSE T_centavos)
  IN  (ExtensoNaoNegativo /\ F \in 0..99) =>
        /\ resp.extenso.outcome = "return"
        /\ (I > 0 /\ F > 0) => resp.extenso.text = reais \o <<" ", "e", " ">> \o centavos
        /\ (I > 0 /\ F = 0) => resp.extenso.text = reais
        /\ (I = 0 /\ F > 0) => resp.extenso.text = centavos
        /\ (I = 0 /\ F = 0) => resp.extenso.text = T_zero_reais

C7_Witness ==
  /\ ExtensoNaoNegativo
  /\ req.valor.int = 1234 /\ req.valor.mills = 560
  /\ Contains(resp.extenso.text, <<"s", " ", "e", " ", "c">>)

\* C8: the unit noun is 'real' exactly when the whole part is 1 and 'reais'
\* for every other positive whole part; the subunit noun is 'centavo'
\* exactly when the centavos count is 1 and 'centavos' for every other
\* positive count.
C8_NounNumber ==
  LET I == req.valor.int
      F == RoundCents(req.valor.mills, req.valor.up)
      t == resp.extenso.text
  IN  ExtensoNaoNegativo =>
        /\ HasToken(t, T_real) <=> I = 1
        /\ I > 1 => HasToken(t, T_reais)
        /\ HasToken(t, T_centavo) <=> F = 1
        /\ HasToken(t, T_centavos) <=> F > 1

C8_Witness ==
  /\ ExtensoNaoNegativo
  /\ req.valor.int = 1 /\ req.valor.mills = 10
  /\ HasToken(resp.extenso.text, T_real) /\ HasToken(resp.extenso.text, T_centavo)

----------------------------------------------------------------------------
(* Claims about gerar_recibo_pdf_memoria, under SpecRender                 *)

RenderFeito == req.op = "gerar_recibo_pdf_memoria"

\* C5: with the amount absent or unparseable the call fails and no page
\* bytes are produced: the buffer is never written and never returned.
C5_NoPageOnInvalidAmount ==
  (RenderFeito /\ (req.valor.kind = "absent" \/ ~FloatOk(req.valor))) =>
    /\ resp.render.outcome = "raise"
    /\ resp.render.buffer = <<>>
    /\ ~resp.render.returned

C5_Witness ==
  /\ RenderFeito /\ req.valor.kind = "text" /\ Len(req.extenso) = 95
  /\ resp.render.outcome = "raise"

\* the words block of the page: two lines, the first ending where a space
\* of the terminated text was, nothing produced beyond them
DuasLinhasNoEspaco ==
  LET lines == resp.render.page.lines
      t == req.extenso
      fim == IF t[Len(t)] = "." THEN t ELSE t \o <<".">>
  IN  /\ Len(lines) = 2
      /\ resp.render.page.extenso_box = lines
      /\ lines[1] \o <<" ">> \o lines[2] = fim

\* C6 as stated: every 95-character words text is drawn as exactly 2 lines,
\* broken at a space, with nothing left over for a third line.
C6_Every95WrapsAtSpace ==
  (RenderFeito /\ resp.render.outcome = "return" /\ Len(req.extenso) = 95) =>
    DuasLinhasNoEspaco

\* the terminated text has a space among its first 90 characters, and at
\* most 90 characters follow the last such space
EspacoNoOrcamento(t) ==
  LET n == IF t[Len(t)] = "." THEN Len(t) ELSE Len(t) + 1
  IN  \E p \in 1..90 :
        /\ t[p] = " "
        /\ \A q \in (p + 1)..90 : t[q] # " "
        /\ n - p <= 90

\* C6 as amended: every 95-character words text that has a space among the
\* first 90 characters of its period-terminated form, with at most 90
\* characters after the last such space, is drawn as exactly 2 lines, broken
\* at that space, with nothing left over for a third line.
C6_95WrapsAtLastSpace ==
  (RenderFeito /\ resp.render.outcome = "return" /\ Len(req.extenso) = 95
     /\ EspacoNoOrcamento(req.extenso)) =>
    DuasLinhasNoEspaco

C6_Witness ==
  /\ RenderFeito /\ resp.render.outcome = "return" /\ Len(req.extenso) = 95
  /\ EspacoNoOrcamento(req.extenso)
  /\ req.extenso[4] = " " /\ req.extenso[89] = " " /\ req.extenso[91] = " "
  /\ Len(resp.render.page.extenso_box) = 2
  /\ Len(resp.render.page.extenso_box[1]) = 88

\* s is digits in groups of three separated by '.', the first group of one
\* to three digits, with no leading zero unless s is '0'
GruposDeTres(s) ==
  /\ Len(s) > 0
  /\ \A i \in 1..Len(s) :
       IF (Len(s) - i) % 4 = 3 THEN s[i] = "." ELSE IsDigit(s[i])
  /\ s[1] = "0" => Len(s) = 1

\* C9: for every parseable non-negative amount the drawn amount string has
\* exactly 2 digits after a ',' and the whole digits in groups of three
\* separated by '.', with no other separator, and it denotes the amount
\* rounded to centavos (1234.5 is drawn as 'R$ 1.234,50').
C9_AmountFormat ==
  LET s == resp.render.page.valor_box
      n == Len(s)
      mills == req.valor.int * 1000 + req.valor.mills
  IN  (RenderFeito /\ req.valor.kind = "num" /\ ~req.valor.neg) =>
        /\ resp.render.outcome = "return"
        /\ n >= 7
        /\ SubSeq(s, 1, 3) = <<"R", "$", " ">>
        /\ s[n - 2] = "," /\ IsDigit(s[n - 1]) /\ IsDigit(s[n])
        /\ GruposDeTres(SubSeq(s, 4, n - 3))
        /\ 10 * CentsOfNumber(s) - mills \in -5..5
        /\ resp.render.page.total = s
        /\ (req.valor.int = 1234 /\ req.valor.mills = 500) =>
             s = <<"R", "$", " ", "1", ".", "2", "3", "4", ",", "5", "0">>

C9_Witness ==
  /\ RenderFeito /\ req.valor.kind = "num" /\ ~req.valor.neg
  /\ req.valor.int = 1234567 /\ req.valor.mills = 891
  /\ resp.render.page.valor_box =
       <<"R", "$", " ", "1", ".", "2", "3", "4", ".", "5", "6", "7", ",", "8", "9">>

----------------------------------------------------------------------------
(* Claims about the handlers, under Spec                                   *)

\* the words text drawn in the words box, its lines joined again
PalavrasDesenhadas == Join(<<" ">>, resp.render.page.extenso_box)

\* C2: in every receipt page produced through generate, the words drawn in
\* the words box denote the same reais and centavos as the amount drawn in
\* the amount box, negative amounts and amounts with more than 2 fractional
\* digits included.
C2_WordsAgreeWithAmount ==
  (req.op = "generate" /\ resp.kind = "pdf") =>
    CentsOfWords(PalavrasDesenhadas) = CentsOfNumber(resp.render.page.valor_box)

\* the amount parses as a non-negative decimal number
DecimalNaoNegativo(v) == v.kind = "num" /\ ~v.neg

\* C3: when the amount submitted to generate does not parse as a
\* non-negative decimal number, the request leaves table recibos unchanged
\* and returns no PDF.
C3_InvalidAmountNotPersisted ==
  [][ (req'.op = "generate" /\ ~DecimalNaoNegativo(req'.valor)) =>
        (recibos' = recibos /\ resp'.kind # "pdf") ]_vars

\* C10: a call of valor_por_extenso or of gerar_recibo_pdf_memoria leaves
\* clientes, recibos and the id counter unchanged, and its outcome is the
\* outcome of any earlier call with the same argument.
C10_CoreStateless ==
  [][ req'.op \in {"extenso_api", "gerar_recibo_pdf_memoria"} =>
        /\ UNCHANGED <<clientes, recibos, next_id>>
        /\ (lembrado.op = req'.op /\ lembrado.valor = req'.valor
              /\ lembrado.extenso = req'.extenso) => resp' = lembrado.resp ]_vars

\* a call repeats the argument of a remembered call made before a receipt
\* was saved, with both tables non-empty
C10_Witness ==
  /\ req.op = "gerar_recibo_pdf_memoria" /\ lembrado.op = req.op
  /\ lembrado.valor = req.valor /\ lembrado.extenso = req.extenso
  /\ resp.render.outcome = "return" /\ Len(req.extenso) = 95
  /\ lembrado.n < Len(recibos) /\ clientes # {}
  /\ resp = lembrado.resp

----------------------------------------------------------------------------
(* The words loop of gerar_recibo_pdf_memoria, one pass at a time          *)
(* (lines 175-198).  laco.extenso is the local `extenso`, laco.lines the   *)
(* list `lines`, laco.drawn what drawString has put in the words box, and  *)
(* laco.hard tells whether a pass took the branch of lines 188-190.        *)

\* variant: the slice after a break keeps the space, extenso[last_space:]
DepoisDoEspacoInclusive(extenso, last_space) == Suffix(extenso, last_space)

\* extenso = extenso[last_space+1:] (line 193)
DepoisDoEspaco(extenso, last_space) == Suffix(extenso, last_space + 1)

\* lines 175-181: the words text is read, terminated, and lines = []
entrar_laco ==
  /\ req.op = "pending" /\ laco.pc = "idle"
  /\ laco' = [pc |-> "while", extenso |-> Terminar(req.extenso), lines |-> <<>>,
              drawn |-> <<>>, hard |-> FALSE]
  /\ UNCHANGED <<clientes, recibos, next_id, req, resp, lembrado>>

\* `while extenso:` finds the text empty (line 182)
sair_laco ==
  /\ laco.pc = "while" /\ laco.extenso = <<>>
  /\ laco' = [laco EXCEPT !.pc = "draw"]
  /\ UNCHANGED <<clientes, recibos, next_id, req, resp, lembrado>>

\* one pass of the body (lines 183-193)
iterar_laco ==
  /\ laco.pc = "while" /\ laco.extenso # <<>>
  /\ LET extenso == laco.extenso
         part == Prefix(extenso, max_chars_line)
         last_space == rfind_space(part)
     IN  IF Len(extenso) <= max_chars_line
           THEN \* lines.append(extenso); break
                laco' = [laco EXCEPT !.lines = Append(@, extenso), !.pc = "draw"]
         ELSE IF last_space = -1
           THEN laco' = [laco EXCEPT !.lines = Append(@, part),
                                     !.extenso = Suffix(extenso, max_chars_line),
                                     !.hard = TRUE]
         ELSE laco' = [laco EXCEPT !.lines = Append(@, Prefix(extenso, last_space)),
                                   !.extenso = DepoisDoEspaco(extenso, last_space)]
  /\ UNCHANGED <<clientes, recibos, next_id, req, resp, lembrado>>

\* for ln in lines[:2]: c.drawString(...) (lines 194-198)
desenhar_linhas ==
  /\ laco.pc = "draw"
  /\ laco' = [laco EXCEPT !.drawn = Desenhadas(laco.lines), !.pc = "done"]
  /\ UNCHANGED <<clientes, recibos, next_id, req, resp, lembrado>>

\* the lengths of the words texts, and where they may have their spaces:
\* leading and doubled spaces, the two sides of the 90-character budget
ComprimentosLaco == {0, 1, 90, 91, 95, 181, 185, 275}
PosicoesLaco == {0, 1, 44, 45, 89, 90, 91, 180, 181}

InitLaco ==
  \E len \in ComprimentosLaco, sp \in SUBSET PosicoesLaco, dot \in BOOLEAN :
    PendingRender(Recibo("Ana", Num(FALSE, 5, 0), Texto(len, sp, dot)))

NextLaco ==
  \/ entrar_laco
  \/ sair_laco
  \/ iterar_laco
  \/ desenhar_linhas

\* the function runs to its end: a pass that can be made is made
SpecLaco == InitLaco /\ [][NextLaco]_vars /\ WF_vars(NextLaco)

----------------------------------------------------------------------------
(* Claims about the words loop, under SpecLaco                             *)

\* 0-based positions of the spaces of e at which a line of at most
\* `budget` characters can end
EspacosAte(e, budget) ==
  {p \in 0..budget : p < Len(e) /\ e[p + 1] = " "}

Maior(S) == CHOOSE p \in S : \A q \in S : q <= p

\* C11: each break is taken at the last space at or before the 90-character
\* budget (a line of exactly 90 characters followed by a space is kept
\* whole), only that space is removed, a hard break at 90 characters happens
\* only when there is no such space, and when no hard break occurred the
\* lines joined with single spaces give back the terminated text.
C11_BreakAtLastSpaceInBudget ==
  [][ /\ (laco.pc = "while" /\ Len(laco.extenso) > 90 /\ laco' # laco) =>
           LET e == laco.extenso
               cands == EspacosAte(e, 90)
           IN  IF cands # {}
                 THEN /\ laco'.lines = Append(laco.lines, Prefix(e, Maior(cands)))
                      /\ laco'.extenso = Suffix(e, Maior(cands) + 1)
                      /\ laco'.hard = laco.hard
                 ELSE /\ laco'.lines = Append(laco.lines, Prefix(e, 90))
                      /\ laco'.extenso = Suffix(e, 90)
                      /\ laco'.hard
      /\ (laco'.pc = "draw" /\ ~laco'.hard) =>
           Join(<<" ">>, laco'.lines) = Terminar(req.extenso) ]_vars

\* C12: for every words text the loop terminates, every pass either leaves
\* the loop or leaves strictly less text to wrap, every line produced has at
\* most 90 characters, and what is drawn is the first 2 lines at most.
C12_LoopTerminatesBounded ==
  /\ [][ (laco.pc = "while" /\ laco'.pc = "while") =>
           Len(laco'.extenso) < Len(laco.extenso) ]_vars
  /\ [](\A i \in 1..Len(laco.lines) : Len(laco.lines[i]) <= 90)
  /\ [](/\ Len(laco.drawn) <= 2
        /\ laco.pc = "done" =>
             \A i \in 1..Len(laco.lines) :
               IF i <= 2 THEN i <= Len(laco.drawn) /\ laco.drawn[i] = laco.lines[i]
               ELSE i > Len(laco.drawn))
  /\ <>(laco.pc = "done")

\* a text with a leading space, a doubled space and a word longer than the
\* budget has been wrapped into more lines than are drawn
C12_Witness ==
  /\ laco.pc = "done"
  /\ Len(req.extenso) = 275
  /\ req.extenso[1] = " " /\ req.extenso[45] = " " /\ req.extenso[46] = " "
  /\ laco.hard
  /\ Len(laco.lines) > 2 /\ Len(laco.drawn) = 2

====
